---- MODULE Spec2Model ----
(***************************************************************************)
(* Discrete-event taxi simulation of                                       *)
(* Part-05-Control-Flow/16-Coroutines/taxi_sim.py: the taxi_process        *)
(* generator, the Simulator with its priority queue of Events and registry *)
(* of live generators, compute_duration with the module-level random       *)
(* generator, and main.                                                    *)
(***************************************************************************)
EXTENDS Integers, Sequences, FiniteSets

(***************************************************************************)
(* Program constants (taxi_sim.py lines 13-15).                            *)
(***************************************************************************)
SEARCH_DURATION == 5
TRIP_DURATION == 20
DEPARTURE_INTERVAL == 5

(***************************************************************************)
(* Bounds of the model.                                                    *)
(***************************************************************************)
\* main is called with num_taxis in 0..MaxTaxis
MaxTaxis == 2
\* a direct caller of Simulator builds generators with num_trips in -1..MaxTrips
MaxTrips == 1
\* the stream of the random generator repeats after Period draws
Period == 2
\* a caller driving one generator by hand makes at most MaxCalls calls of send
MaxCalls == 5

\* values of -ln(1 - random()) in hundredths: expovariate(1/interval) is
\* interval times such a value.  95 makes compute_duration return
\* 5, 20, 5, 1 for START, pick up, drop off, END; 100 makes them 6, 21, 6, 2.
XValues == {95, 100}
Streams == [1..Period -> XValues]

\* 1 is a horizon that a start time can equal
Horizons == {0, 1, 40, 1000}
\* ... and with these ids as keys
Ids == {0, 1}
\* -10 is a start from which a shift can end before time 0
StartTimes == {-10, 0, 1}
TripCounts == -1..MaxTrips
Seeds == {"s1"}
\* the times such a caller sends
SendTimes == {5, 9}
None == "None"

(***************************************************************************)
(* Event = namedtuple('Event', 'time proc action'); tuples compare         *)
(* lexicographically, the action strings by code point.                    *)
(***************************************************************************)
Event(time, proc, action) == [time |-> time, proc |-> proc, action |-> action]

Actions == {"START SHIFT", "pick up passenger", "drop off passenger", "END SHIFT"}

\* code point of the first character, which differs between the strings used
OrdFirst(action) ==
    CASE action = "END SHIFT" -> 69
      [] action = "REFUEL" -> 82
      [] action = "START SHIFT" -> 83
      [] action = "drop off passenger" -> 100
      [] action = "pick up passenger" -> 112

StrLt(a, b) == OrdFirst(a) < OrdFirst(b)

\* a slip: the fields declared as 'proc time action'
EventLtIdFirst(a, b) ==
    \/ a.proc < b.proc
    \/ a.proc = b.proc /\ a.time < b.time
    \/ a.proc = b.proc /\ a.time = b.time /\ StrLt(a.action, b.action)

\* a slip: Events compared by their time alone
EventLtTimeOnly(a, b) == a.time < b.time
EventLt(a, b) ==
    \/ a.time < b.time
    \/ a.time = b.time /\ a.proc < b.proc
    \/ a.time = b.time /\ a.proc = b.proc /\ StrLt(a.action, b.action)

(***************************************************************************)
(* taxi_process: a generator.  at is the yield it is suspended at.         *)
(***************************************************************************)
taxi_process(ident, num_trips, start_time) ==
    [ident |-> ident, num_trips |-> num_trips, start_time |-> start_time,
     at |-> "new", i |-> 0, time |-> 0, yielded |-> 0]

StopIteration == [kind |-> "StopIteration"]
TypeError == [kind |-> "TypeError"]
\* a slip: the Event stamped one tick after the time received
YieldLate(ev) == [kind |-> "event", ev |-> [ev EXCEPT !.time = @ + 1]]
Yield(ev) == [kind |-> "event", ev |-> ev]

\* a slip: one trip too many, range(num_trips + 1)
GenSendOneMore(g, t) ==
    CASE g.at = "new" -> [gen |-> g, out |-> TypeError]
      [] g.at = "start" ->
           IF 0 < g.num_trips + 1
           THEN [gen |-> [g EXCEPT !.time = t, !.i = 0, !.at = "pick",
                                   !.yielded = @ + 1],
                 out |-> Yield(Event(t, g.ident, "pick up passenger"))]
           ELSE [gen |-> [g EXCEPT !.time = t, !.at = "end", !.yielded = @ + 1],
                 out |-> Yield(Event(t, g.ident, "END SHIFT"))]
      [] g.at = "pick" ->
           [gen |-> [g EXCEPT !.time = t, !.at = "drop", !.yielded = @ + 1],
            out |-> Yield(Event(t, g.ident, "drop off passenger"))]
      [] g.at = "drop" ->
           IF g.i + 1 < g.num_trips + 1
           THEN [gen |-> [g EXCEPT !.time = t, !.i = @ + 1, !.at = "pick",
                                   !.yielded = @ + 1],
                 out |-> Yield(Event(t, g.ident, "pick up passenger"))]
           ELSE [gen |-> [g EXCEPT !.time = t, !.at = "end", !.yielded = @ + 1],
                 out |-> Yield(Event(t, g.ident, "END SHIFT"))]
      [] OTHER -> [gen |-> [g EXCEPT !.at = "closed"], out |-> StopIteration]

\* proc.send(t): binds the value of the pending yield and runs to the next one
GenSend(g, t) ==
    CASE g.at = "new" -> [gen |-> g, out |-> TypeError]
      [] g.at = "start" ->
           \* time = yield Event(start_time, ...); for i in range(num_trips)
           IF 0 < g.num_trips
           THEN [gen |-> [g EXCEPT !.time = t, !.i = 0, !.at = "pick",
                                   !.yielded = @ + 1],
                 out |-> Yield(Event(t, g.ident, "pick up passenger"))]
           ELSE [gen |-> [g EXCEPT !.time = t, !.at = "end", !.yielded = @ + 1],
                 out |-> Yield(Event(t, g.ident, "END SHIFT"))]
      [] g.at = "pick" ->
           [gen |-> [g EXCEPT !.time = t, !.at = "drop", !.yielded = @ + 1],
            out |-> Yield(Event(t, g.ident, "drop off passenger"))]
      [] g.at = "drop" ->
           IF g.i + 1 < g.num_trips
           THEN [gen |-> [g EXCEPT !.time = t, !.i = @ + 1, !.at = "pick",
                                   !.yielded = @ + 1],
                 out |-> Yield(Event(t, g.ident, "pick up passenger"))]
           ELSE [gen |-> [g EXCEPT !.time = t, !.at = "end", !.yielded = @ + 1],
                 out |-> Yield(Event(t, g.ident, "END SHIFT"))]
      [] OTHER ->
           \* after the last yield the function returns; a closed generator
           \* raises StopIteration again
           [gen |-> [g EXCEPT !.at = "closed"], out |-> StopIteration]

\* next(proc): runs a new generator to its first yield (line 26); on a
\* generator already started it is send(None)
GenNext(g) ==
    IF g.at = "new"
    THEN [gen |-> [g EXCEPT !.at = "start", !.yielded = @ + 1],
          out |-> Yield(Event(g.start_time, g.ident, "START SHIFT"))]
    ELSE GenSend(g, None)

(***************************************************************************)
(* queue.PriorityQueue: a sequence of the queued Events; get removes one   *)
(* that no other is less than.                                             *)
(***************************************************************************)
\* a slip: the put repeated
putTwice(q, e) == Append(Append(q, e), e)
put(q, e) == Append(q, e)
empty(q) == Len(q) = 0
\* a slip: the Event just dispatched counted as still queued
qsizePlusOne(q) == Len(q) + 1
qsize(q) == Len(q)

\* a slip: queue.Queue in place of queue.PriorityQueue
MinIndexFifo(q) == 1
\* a slip: queue.LifoQueue in place of queue.PriorityQueue
MinIndexLifo(q) == Len(q)
MinIndex(q) == CHOOSE i \in 1..Len(q) : \A j \in 1..Len(q) : ~EventLt(q[j], q[i])

\* a slip: the oldest entry removed, whichever Event get returns
RemoveAtFirst(q, i) == Tail(q)
RemoveAt(q, i) == [k \in 1..(Len(q) - 1) |-> IF k < i THEN q[k] ELSE q[k + 1]]
\* a slip: the least Event read but left in the queue
AfterGetPeek(q) == q
AfterGet(q) == RemoveAt(q, MinIndex(q))
get(q) == q[MinIndex(q)]

(***************************************************************************)
(* compute_duration: x is the draw, -ln(1 - random()) in hundredths.       *)
(***************************************************************************)
\* a slip: the elif for END SHIFT left out
KnownWithoutEnd(previous_action) ==
    previous_action \in {"START SHIFT", "drop off passenger", "pick up passenger"}
Known(previous_action) == previous_action \in Actions

\* a slip: the two durations exchanged
IntervalSwapped(previous_action) ==
    CASE previous_action \in {"START SHIFT", "drop off passenger"} -> TRIP_DURATION
      [] previous_action = "pick up passenger" -> SEARCH_DURATION
      [] previous_action = "END SHIFT" -> 1

\* a slip: END given the searching duration
IntervalEndSearch(previous_action) ==
    CASE previous_action \in {"START SHIFT", "drop off passenger", "END SHIFT"} ->
           SEARCH_DURATION
      [] previous_action = "pick up passenger" -> TRIP_DURATION

Interval(previous_action) ==
    CASE previous_action \in {"START SHIFT", "drop off passenger"} -> SEARCH_DURATION
      [] previous_action = "pick up passenger" -> TRIP_DURATION
      [] previous_action = "END SHIFT" -> 1

\* a slip: the + 1 left out
compute_durationZero(previous_action, x) == (Interval(previous_action) * x) \div 100
compute_duration(previous_action, x) == (Interval(previous_action) * x) \div 100 + 1

\* the outcome of a call: the else branch raises before any draw (lines 87-88)
ValueError == [kind |-> "ValueError"]
\* a slip: an unknown action given a delay of 1 in place of the raise
DurationDefaulted(previous_action, x) ==
    IF Known(previous_action)
    THEN [kind |-> "value", value |-> compute_duration(previous_action, x)]
    ELSE [kind |-> "value", value |-> 1]
Duration(previous_action, x) ==
    IF Known(previous_action)
    THEN [kind |-> "value", value |-> compute_duration(previous_action, x)]
    ELSE ValueError

(***************************************************************************)
(* main's dict comprehension (line 97).                                    *)
(***************************************************************************)
\* a slip: i * 2 trips in place of (i + 1) * 2
MainTaxisFromZero(num_taxis) ==
    [i \in 0..(num_taxis - 1) |->
        [num_trips |-> i * 2, start_time |-> i * DEPARTURE_INTERVAL]]
MainTaxis(num_taxis) ==
    [i \in 0..(num_taxis - 1) |->
        [num_trips |-> (i + 1) * 2, start_time |-> i * DEPARTURE_INTERVAL]]

\* what a direct caller of Simulator passes: a dict id -> taxi_process(id, ...)
ClientTaxis ==
    UNION {[ids -> [num_trips : TripCounts, start_time : StartTimes]] :
              ids \in SUBSET Ids}

Generators(taxis) ==
    [i \in DOMAIN taxis |-> taxi_process(i, taxis[i].num_trips, taxis[i].start_time)]

\* a slip: sorted(..., reverse=True)
RECURSIVE SortedKeysDescending(_)
SortedKeysDescending(S) ==
    IF S = {} THEN <<>>
    ELSE LET m == CHOOSE x \in S : \A y \in S : x >= y
         IN <<m>> \o SortedKeysDescending(S \ {m})

\* sorted(self.procs.items()): the keys in ascending order
RECURSIVE SortedKeys(_)
SortedKeys(S) ==
    IF S = {} THEN <<>>
    ELSE LET m == CHOOSE x \in S : \A y \in S : x <= y
         IN <<m>> \o SortedKeys(S \ {m})

NoRun == [ran |-> FALSE]

VARIABLES
    pc,         \* "idle", "prime", "loop", "done", "error"
    args,       \* the arguments of the call being run
    rng,        \* the module-level random generator: its stream and position
    mt,         \* the stream each seed gives, once it has been used
    procs,      \* self.procs
    finished,   \* the generators deleted from self.procs, as they were left
    events,     \* self.events
    toPrime,    \* the ids the for loop of run has still to visit
    sim_time,   \* sim_time
    dispatched, \* the Events printed (line 58), in order
    popClock,   \* the value of sim_time at the loop top of each dispatch
    sends,      \* the calls of send made: the actor, the time sent, the draw
                \* behind it and what the generator answered
    reports,    \* the termination lines printed (lines 53 and 69)
    err,        \* the exception that ended run, if any
    prev        \* the output of the previous process, to compare runs

vars == <<pc, args, rng, mt, procs, finished, events, toPrime, sim_time, dispatched,
          popClock, sends, reports, err, prev>>

NoArgs == [caller |-> "none", end_time |-> 0, seed |-> None, taxis |-> <<>>]

\* import random seeds the generator from the operating system
Init ==
    /\ pc = "idle"
    /\ args = NoArgs
    /\ rng \in [stream : Streams, pos : {0}]
    /\ mt = [s \in Seeds |-> <<>>]
    /\ procs = <<>>
    /\ finished = <<>>
    /\ events = <<>>
    /\ toPrime = <<>>
    /\ sim_time = 0
    /\ dispatched = <<>>
    /\ popClock = <<>>
    /\ sends = <<>>
    /\ reports = <<>>
    /\ err = None
    /\ prev = NoRun

\* the stream of a seed is fixed the first time the seed is used
Reveal(m, seed, stream) ==
    IF seed # None /\ m[seed] = <<>> THEN [m EXCEPT ![seed] = stream] ELSE m

\* if seed is not None: random.seed(seed) (lines 94-95); the same seed gives
\* the same stream in every process
\* a slip: the seed ignored
SeededNever(r, seed, m) == r
Seeded(r, seed, m) ==
    IF seed = None THEN r ELSE [stream |-> m[seed], pos |-> 0]

\* Simulator(taxis) and the entry of run
Construct(caller, end_time, seed, taxis) ==
    /\ args' = [caller |-> caller, end_time |-> end_time, seed |-> seed,
                taxis |-> taxis]
    /\ procs' = Generators(taxis)
    /\ finished' = <<>>
    /\ events' = <<>>
    /\ toPrime' = SortedKeys(DOMAIN taxis)
    /\ sim_time' = 0
    /\ dispatched' = <<>>
    /\ popClock' = <<>>
    /\ sends' = <<>>
    /\ reports' = <<>>
    /\ err' = None
    /\ pc' = "prime"

\* main(end_time, num_taxis, seed), up to the call of sim.run
Main ==
    /\ pc = "idle"
    /\ \E end_time \in Horizons, num_taxis \in 0..MaxTaxis,
          seed \in Seeds \cup {None}, stream \in Streams :
          /\ mt' = Reveal(mt, seed, stream)
          /\ rng' = Seeded(rng, seed, mt')
          /\ Construct("main", end_time, seed, MainTaxis(num_taxis))
    /\ UNCHANGED prev

\* another caller: Simulator(procs_map).run(end_time) on its own generators
Client ==
    /\ pc = "idle"
    /\ \E end_time \in Horizons, taxis \in ClientTaxis,
          seed \in Seeds \cup {None}, stream \in Streams :
          /\ mt' = Reveal(mt, seed, stream)
          /\ rng' = Seeded(rng, seed, mt')
          /\ Construct("client", end_time, seed, taxis)
    /\ UNCHANGED prev

\* one pass of the for loop of run (lines 45-47); sim_time = 0 after the last
Prime ==
    /\ pc = "prime"
    /\ IF toPrime = <<>>
       THEN /\ sim_time' = 0
            /\ pc' = "loop"
            /\ UNCHANGED <<procs, events, toPrime, err>>
       ELSE LET id == Head(toPrime)
                r == GenNext(procs[id])
            IN /\ procs' = [procs EXCEPT ![id] = r.gen]
               /\ toPrime' = Tail(toPrime)
               /\ IF r.out.kind = "event"
                  THEN /\ events' = put(events, r.out.ev)
                       /\ UNCHANGED <<pc, err>>
                  ELSE /\ pc' = "error"
                       /\ err' = r.out.kind
                       /\ UNCHANGED events
               /\ UNCHANGED sim_time
    /\ UNCHANGED <<args, rng, mt, finished, dispatched, popClock, sends, reports,
                   prev>>

\* the condition of the while (line 51)
\* a slip: while True
InTimeAlways(t, end_time) == TRUE
\* a slip: <= in place of <
InTimeInclusive(t, end_time) == t <= end_time
InTime(t, end_time) == t < end_time

\* a slip: the registry cleared when the time is up
HorizonReachedClears ==
    /\ pc = "loop"
    /\ ~InTime(sim_time, args.end_time)
    /\ reports' = Append(reports, [kind |-> "END OF SIMULATION TIME",
                                   remaining |-> qsize(events)])
    /\ procs' = <<>>
    /\ pc' = "done"
    /\ UNCHANGED <<args, rng, mt, finished, events, toPrime, sim_time,
                   dispatched, popClock, sends, err, prev>>

\* the while condition fails: the else clause of the loop (lines 67-69)
HorizonReached ==
    /\ pc = "loop"
    /\ ~InTime(sim_time, args.end_time)
    /\ reports' = Append(reports, [kind |-> "END OF SIMULATION TIME",
                                   remaining |-> qsize(events)])
    /\ pc' = "done"
    /\ UNCHANGED <<args, rng, mt, procs, finished, events, toPrime, sim_time,
                   dispatched, popClock, sends, err, prev>>

\* a slip: the emptiness of the queue tested ahead of the while condition
EndOfEventsFirst ==
    /\ pc = "loop"
    /\ empty(events)
    /\ reports' = Append(reports, [kind |-> "END OF EVENTS", remaining |-> 0])
    /\ pc' = "done"
    /\ UNCHANGED <<args, rng, mt, procs, finished, events, toPrime, sim_time,
                   dispatched, popClock, sends, err, prev>>

\* the queue is empty at the loop top: print and break (lines 52-54)
EndOfEvents ==
    /\ pc = "loop"
    /\ InTime(sim_time, args.end_time)
    /\ empty(events)
    /\ reports' = Append(reports, [kind |-> "END OF EVENTS", remaining |-> 0])
    /\ pc' = "done"
    /\ UNCHANGED <<args, rng, mt, procs, finished, events, toPrime, sim_time,
                   dispatched, popClock, sends, err, prev>>

\* one iteration of the loop body (lines 56-66)
Dispatch ==
    /\ pc = "loop"
    /\ InTime(sim_time, args.end_time)
    /\ ~empty(events)
    /\ LET current_event == get(events)
           rest == AfterGet(events)
           proc_id == current_event.proc
           previous_action == current_event.action
           x == rng.stream[rng.pos + 1]
           d == Duration(previous_action, x)
       IN /\ sim_time' = current_event.time
          /\ dispatched' = Append(dispatched, current_event)
          /\ popClock' = Append(popClock, sim_time)
          /\ IF proc_id \notin DOMAIN procs
             THEN /\ pc' = "error"
                  /\ err' = "KeyError"
                  /\ events' = rest
                  /\ UNCHANGED <<procs, finished, rng, sends>>
             ELSE IF d.kind = "ValueError"
             THEN /\ pc' = "error"
                  /\ err' = "ValueError"
                  /\ events' = rest
                  /\ UNCHANGED <<procs, finished, rng, sends>>
             ELSE LET next_time == current_event.time + d.value
                      r == GenSend(procs[proc_id], next_time)
                  IN /\ rng' = [rng EXCEPT !.pos = (@ + 1) % Period]
                     /\ sends' = Append(sends, [proc |-> proc_id, time |-> next_time,
                                                draw |-> x, out |-> r.out])
                     /\ IF r.out.kind = "StopIteration"
                        THEN /\ procs' = [k \in DOMAIN procs \ {proc_id} |-> procs[k]]
                             /\ finished' = [k \in DOMAIN finished \cup {proc_id} |->
                                               IF k = proc_id THEN r.gen
                                               ELSE finished[k]]
                             /\ events' = rest
                             /\ UNCHANGED <<pc, err>>
                        ELSE IF r.out.kind = "event"
                        THEN /\ procs' = [procs EXCEPT ![proc_id] = r.gen]
                             /\ events' = put(rest, r.out.ev)
                             /\ UNCHANGED <<pc, err, finished>>
                        ELSE /\ pc' = "error"
                             /\ err' = r.out.kind
                             /\ events' = rest
                             /\ UNCHANGED <<procs, finished>>
    /\ UNCHANGED <<args, mt, toPrime, reports, prev>>

\* the same command, with its seed, is run again in a new process, whose
\* generator starts from the operating system's entropy before it is seeded
\* (an unseeded second run is an unseeded first run: Main and Client cover it)
Rerun ==
    /\ pc = "done"
    /\ prev = NoRun
    /\ args.seed # None
    /\ prev' = [ran |-> TRUE, args |-> args, dispatched |-> dispatched,
                reports |-> reports]
    /\ \E entropy \in Streams :
          rng' = Seeded([stream |-> entropy, pos |-> 0], args.seed, mt)
    /\ mt' = mt
    /\ Construct(args.caller, args.end_time, args.seed, args.taxis)

Next == Main \/ Client \/ Prime \/ HorizonReached \/ EndOfEvents \/ Dispatch \/ Rerun

Spec == Init /\ [][Next]_vars

\* run is straight-line code on one thread: once called it keeps executing
Run == Prime \/ HorizonReached \/ EndOfEvents \/ Dispatch
FairSpec == Spec /\ WF_vars(Run)

(***************************************************************************)
(* Simulator takes any dict of generators.  A generator that is not a      *)
(* taxi_process may yield an Event whose action compute_duration does not  *)
(* know: one that yields a single Event with its own action, then returns. *)
(***************************************************************************)
Tags == Actions \cup {"REFUEL"}

\* such a generator after next(proc): suspended at its only yield
foreign_process(ident, tag, start_time) ==
    [ident |-> ident, tag |-> tag, start_time |-> start_time, at |-> "only",
     yielded |-> 1]

ForeignProcs ==
    UNION {[ids -> [tag : Tags, start_time : StartTimes]] :
              ids \in (SUBSET Ids) \ {{}}}

\* Simulator(procs_map).run(end_time) on such generators, up to the loop: the
\* for loop (lines 45-47) puts their first Events in the order of their keys
Foreign ==
    /\ pc = "idle"
    /\ \E end_time \in Horizons, cfg \in ForeignProcs :
          LET keys == SortedKeys(DOMAIN cfg)
          IN /\ args' = [caller |-> "foreign", end_time |-> end_time,
                         seed |-> None, taxis |-> cfg]
             /\ procs' = [i \in DOMAIN cfg |->
                            foreign_process(i, cfg[i].tag, cfg[i].start_time)]
             /\ events' = [k \in 1..Len(keys) |->
                             Event(cfg[keys[k]].start_time, keys[k], cfg[keys[k]].tag)]
    /\ finished' = <<>>
    /\ toPrime' = <<>>
    /\ sim_time' = 0
    /\ dispatched' = <<>>
    /\ popClock' = <<>>
    /\ sends' = <<>>
    /\ reports' = <<>>
    /\ err' = None
    /\ pc' = "loop"
    /\ UNCHANGED <<rng, mt, prev>>

TagNext == Foreign \/ HorizonReached \/ EndOfEvents \/ Dispatch
TagSpec == Init /\ [][TagNext]_vars

(***************************************************************************)
(* A caller that drives one taxi_process by hand: next once, then send as  *)
(* often as it likes, also after the generator has returned.               *)
(***************************************************************************)
Create ==
    /\ pc = "idle"
    /\ \E id \in Ids, num_trips \in TripCounts, start_time \in StartTimes :
          /\ args' = [caller |-> "direct", end_time |-> 0, seed |-> None,
                      taxis |-> [i \in {id} |-> [num_trips |-> num_trips,
                                                 start_time |-> start_time]]]
          /\ procs' = [i \in {id} |->
                         GenNext(taxi_process(id, num_trips, start_time)).gen]
    /\ pc' = "direct"
    /\ UNCHANGED <<rng, mt, finished, events, toPrime, sim_time, dispatched,
                   popClock, sends, reports, err, prev>>

DirectSend ==
    /\ pc = "direct"
    /\ Len(sends) < MaxCalls
    /\ \E id \in DOMAIN procs, t \in SendTimes :
          LET r == GenSend(procs[id], t)
          IN /\ procs' = [procs EXCEPT ![id] = r.gen]
             /\ sends' = Append(sends, [proc |-> id, time |-> t, draw |-> 0,
                                        out |-> r.out])
    /\ UNCHANGED <<pc, args, rng, mt, finished, events, toPrime, sim_time,
                   dispatched, popClock, reports, err, prev>>

GenNextStep == Create \/ DirectSend
GenSpec == Init /\ [][GenNextStep]_vars

(***************************************************************************)
(* What is observed of a run, for the properties below.                    *)
(***************************************************************************)
Running == pc \in {"prime", "loop", "done"}

\* the places of the dispatched, and of the queued, Events of an actor
DispatchedOf(id) == {k \in 1..Len(dispatched) : dispatched[k].proc = id}
QueuedOf(id) == {k \in 1..Len(events) : events[k].proc = id}
DispatchedAs(id, action) == {k \in DispatchedOf(id) : dispatched[k].action = action}

\* every Event a generator yields is put in the queue, and leaves it only by
\* being dispatched
Produced(id) == Cardinality(DispatchedOf(id)) + Cardinality(QueuedOf(id))

LastDispatched == dispatched[Len(dispatched)]

\* the order of the specification on Events: time, then actor id, then the
\* action under END < START < drop off < pick up
ActionRank(action) ==
    CASE action = "END SHIFT" -> 1
      [] action = "START SHIFT" -> 2
      [] action = "drop off passenger" -> 3
      [] action = "pick up passenger" -> 4

TripleLess(a, b) ==
    \/ a.time < b.time
    \/ a.time = b.time /\ a.proc < b.proc
    \/ a.time = b.time /\ a.proc = b.proc /\ ActionRank(a.action) < ActionRank(b.action)

(***************************************************************************)
(* C1: an actor with trip count n >= 0 never has more than 2n + 2 Events   *)
(* produced for it, and once its generator is exhausted exactly 2n + 2     *)
(* were produced: one START, n pick up, n drop off, one END.               *)
(***************************************************************************)
C1_EventCount ==
    Running =>
      \A id \in DOMAIN args.taxis :
        LET n == args.taxis[id].num_trips
        IN n >= 0 =>
             /\ Produced(id) <= 2 * n + 2
             /\ id \in DOMAIN procs =>
                   /\ procs[id].yielded = Produced(id)
                   /\ procs[id].at # "closed"
             /\ id \in DOMAIN finished =>
                   /\ finished[id].at = "closed"
                   /\ finished[id].yielded = 2 * n + 2
                   /\ Produced(id) = 2 * n + 2
                   /\ Cardinality(DispatchedAs(id, "START SHIFT")) = 1
                   /\ Cardinality(DispatchedAs(id, "pick up passenger")) = n
                   /\ Cardinality(DispatchedAs(id, "drop off passenger")) = n
                   /\ Cardinality(DispatchedAs(id, "END SHIFT")) = 1

\* an actor with two trips is exhausted after its six Events, another with
\* four trips after its ten
C1_Witness ==
    /\ pc = "done"
    /\ \E id \in DOMAIN finished :
          finished[id].num_trips = 2 /\ Cardinality(DispatchedOf(id)) = 6
    /\ \E id \in DOMAIN finished :
          finished[id].num_trips = 4 /\ Cardinality(DispatchedOf(id)) = 10

(***************************************************************************)
(* C2: the times of the Events dispatched in a run, which are the values   *)
(* sim_time takes, never decrease along the run.                           *)
(***************************************************************************)
C2_MonotonicClock ==
    \A i, j \in 1..Len(dispatched) :
        i < j => dispatched[i].time <= dispatched[j].time

\* two actors, a start before time 0, and two Events dispatched at one time
C2_Witness ==
    /\ pc = "done"
    /\ Len(dispatched) >= 4
    /\ dispatched[1].time < 0
    /\ \E i \in 1..(Len(dispatched) - 1) :
          /\ dispatched[i].time = dispatched[i + 1].time
          /\ dispatched[i].proc # dispatched[i + 1].proc

(***************************************************************************)
(* C3: every Event dispatched is least, under (time, actor id, action),    *)
(* among the Events queued when it is taken, and follows in that order     *)
(* every Event dispatched before it with the same time.                    *)
(***************************************************************************)
C3_TieBreak ==
    [][Len(dispatched') = Len(dispatched) + 1 =>
         LET e == dispatched'[Len(dispatched')]
         IN /\ \E k \in 1..Len(events) : events[k] = e
            /\ \A k \in 1..Len(events) : ~TripleLess(events[k], e)
            /\ \A k \in 1..Len(dispatched) :
                  dispatched[k].time = e.time => TripleLess(dispatched[k], e)]_vars

\* a pick up was dispatched ahead of a START queued before it, with the same
\* time and a larger id: the id decides, not the action nor the order of puts
C3_Witness ==
    /\ pc = "loop"
    /\ Len(dispatched) >= 2
    /\ LastDispatched.action = "pick up passenger"
    /\ \E k \in 1..Len(events) :
          /\ events[k].time = LastDispatched.time
          /\ events[k].proc > LastDispatched.proc
          /\ events[k].action = "START SHIFT"

(***************************************************************************)
(* C4: a run repeated with the same actors, the same horizon and the same  *)
(* seed dispatches the same Events in the same order and ends with the     *)
(* same report.                                                            *)
(***************************************************************************)
IsPrefix(a, b) == Len(a) <= Len(b) /\ \A k \in 1..Len(a) : a[k] = b[k]

C4_Reproducible ==
    (prev.ran /\ Running /\ args = prev.args /\ args.seed # None) =>
        /\ IsPrefix(dispatched, prev.dispatched)
        /\ pc = "done" =>
              /\ dispatched = prev.dispatched
              /\ reports = prev.reports

\* the second of two seeded runs of two actors has ended, on a stream whose
\* draws differ
C4_Witness ==
    /\ prev.ran
    /\ pc = "done"
    /\ args.seed # None
    /\ Cardinality(DOMAIN args.taxis) = 2
    /\ Len(dispatched) >= 6
    /\ dispatched = prev.dispatched
    /\ rng.stream[1] # rng.stream[2]

(***************************************************************************)
(* C5: an actor deleted from self.procs stays deleted for the rest of the  *)
(* run, and every Event dispatched bears the id of an actor that is in     *)
(* self.procs when it is dispatched.                                       *)
(***************************************************************************)
C5_NoDispatchAfterRemoval ==
    [][pc = "loop" =>
         /\ Len(dispatched') = Len(dispatched) + 1 =>
               dispatched'[Len(dispatched')].proc \in DOMAIN procs
         /\ pc' # "prime" => DOMAIN procs' \subseteq DOMAIN procs]_vars

\* an Event of one actor was dispatched after the END of another, deleted
C5_Witness ==
    /\ pc = "loop"
    /\ \E id \in DOMAIN finished :
          /\ id \notin DOMAIN procs
          /\ LastDispatched.proc # id
          /\ \E k \in DispatchedAs(id, "END SHIFT") : k < Len(dispatched)

(***************************************************************************)
(* C6: the queue never holds two Events of the same actor.                 *)
(***************************************************************************)
C6_OnePendingEvent ==
    \A i, j \in 1..Len(events) : i # j => events[i].proc # events[j].proc

\* two actors are queued in the middle of a run, each with its one Event
C6_Witness ==
    /\ pc = "loop"
    /\ Len(dispatched) >= 3
    /\ Len(events) = 2
    /\ \A id \in DOMAIN procs : Cardinality(QueuedOf(id)) = 1

(***************************************************************************)
(* C7: one actor with two trips starting at 0, delays 5 after START and    *)
(* drop off, 20 after pick up, 1 after END, horizon 1000: the run          *)
(* dispatches (0, START), (5, pick up), (25, drop off), (30, pick up),     *)
(* (50, drop off), (55, END) and reports END OF EVENTS.                    *)
(***************************************************************************)
OneActor == [i \in {0} |-> [num_trips |-> 2, start_time |-> 0]]

\* the stream whose every draw is 0.95: int(5 * 0.95) + 1 = 5,
\* int(20 * 0.95) + 1 = 20, int(1 * 0.95) + 1 = 1
StubStream == [k \in 1..Period |-> 95]

\* compute_duration returns the delays of the scenario on these draws
StubDelays(stream) ==
    \A k \in DOMAIN stream :
        /\ compute_duration("START SHIFT", stream[k]) = 5
        /\ compute_duration("drop off passenger", stream[k]) = 5
        /\ compute_duration("pick up passenger", stream[k]) = 20
        /\ compute_duration("END SHIFT", stream[k]) = 1

Expected ==
    <<Event(0, 0, "START SHIFT"), Event(5, 0, "pick up passenger"),
      Event(25, 0, "drop off passenger"), Event(30, 0, "pick up passenger"),
      Event(50, 0, "drop off passenger"), Event(55, 0, "END SHIFT")>>

Scenario(end_time) ==
    /\ Running
    /\ args.taxis = OneActor
    /\ args.end_time = end_time
    /\ rng.stream = StubStream

C7_Scenario ==
    Scenario(1000) =>
        /\ IsPrefix(dispatched, Expected)
        /\ pc = "done" =>
              /\ dispatched = Expected
              /\ \A k \in 1..5 : dispatched[k].time < dispatched[k + 1].time
              /\ reports = <<[kind |-> "END OF EVENTS", remaining |-> 0]>>

C7_Witness ==
    /\ Scenario(1000)
    /\ StubDelays(rng.stream)
    /\ pc = "done"
    /\ Len(dispatched) = 6
    /\ events = <<>>

(***************************************************************************)
(* C8: the same scenario with horizon 40: the Events of times 0, 5, 25, 30 *)
(* and then 50 are dispatched, each taken at a loop top where the clock is *)
(* below 40, and the run reports END OF SIMULATION TIME with one Event,    *)
(* the END of time 55, still queued.                                       *)
(***************************************************************************)
C8_Boundary ==
    Scenario(40) =>
        /\ IsPrefix(dispatched, SubSeq(Expected, 1, 5))
        /\ \A k \in 1..Len(popClock) : popClock[k] < 40
        /\ pc = "done" =>
              /\ dispatched = SubSeq(Expected, 1, 5)
              /\ popClock = <<0, 0, 5, 25, 30>>
              /\ reports = <<[kind |-> "END OF SIMULATION TIME", remaining |-> 1]>>
              /\ events = <<Event(55, 0, "END SHIFT")>>

C8_Witness ==
    /\ Scenario(40)
    /\ StubDelays(rng.stream)
    /\ pc = "done"
    /\ LastDispatched.time = 50
    /\ Len(events) = 1

(***************************************************************************)
(* C9: a run prints no termination report before it ends and exactly one   *)
(* when it ends, END OF EVENTS or END OF SIMULATION TIME; the latter       *)
(* carries the number of Events queued when the loop exits.                *)
(***************************************************************************)
C9_OneReport ==
    /\ pc \in {"prime", "loop"} => reports = <<>>
    /\ pc = "done" =>
          /\ Len(reports) = 1
          /\ reports[1].kind \in {"END OF EVENTS", "END OF SIMULATION TIME"}
          /\ reports[1].kind = "END OF SIMULATION TIME" =>
                reports[1].remaining = Len(events)

\* a run ended by the horizon with the Events of two actors still queued
C9_Witness ==
    /\ pc = "done"
    /\ Len(dispatched) >= 2
    /\ reports = <<[kind |-> "END OF SIMULATION TIME", remaining |-> 2]>>
    /\ Len(events) = 2

(***************************************************************************)
(* C10: every run that is started ends: the loop exits on an empty queue   *)
(* with the clock below the horizon, or on the clock having reached the    *)
(* horizon.                                                                *)
(***************************************************************************)
Exited ==
    /\ pc = "done"
    /\ Len(reports) = 1
    /\ IF reports[1].kind = "END OF EVENTS"
       THEN events = <<>> /\ sim_time < args.end_time
       ELSE sim_time >= args.end_time

C10_Terminates == (pc = "prime") ~> Exited

\* a run of two actors under a horizon beyond all its Events has ended
C10_Witness ==
    /\ Exited
    /\ Cardinality(DOMAIN args.taxis) = 2
    /\ Len(dispatched) = 16
    /\ sim_time < args.end_time
    /\ reports[1].kind = "END OF EVENTS"

(***************************************************************************)
(* C11: an action outside the four known ones makes compute_duration raise *)
(* ValueError on every draw; in run the Event is printed and the error     *)
(* ends the run there: its actor is not resumed, no Event is put and no    *)
(* termination report is printed, then or later.                           *)
(***************************************************************************)
C11_UnknownActionAborts ==
    [][/\ (pc = "loop" /\ sim_time < args.end_time /\ events # <<>>
            /\ get(events).action \notin Actions) =>
              /\ \A x \in XValues : Duration(get(events).action, x) = ValueError
              /\ pc' = "error"
              /\ err' = "ValueError"
              /\ procs' = procs
              /\ sends' = sends
              /\ Len(events') = Len(events) - 1
              /\ \A k \in 1..Len(events') : \E j \in 1..Len(events) : events'[k] = events[j]
              /\ reports' = <<>>
       /\ pc = "error" => pc' = "error" /\ reports' = reports]_vars

\* the run stopped on the unknown action of the second Event taken, with one
\* actor still registered and never resumed after its Event
C11_Witness ==
    /\ pc = "error"
    /\ err = "ValueError"
    /\ Len(dispatched) = 2
    /\ Len(sends) = 1
    /\ LastDispatched.action = "REFUEL"
    /\ LastDispatched.proc \in DOMAIN procs
    /\ reports = <<>>

(***************************************************************************)
(* C12: a run with a horizon of 0 or less ends in an error, not normally   *)
(* with a termination report.                                              *)
(***************************************************************************)
C12_NonPositiveHorizonFatal ==
    (Running /\ args.end_time <= 0) => (pc # "done" /\ reports = <<>>)

(***************************************************************************)
(* C13: a run with an actor of negative trip count ends in an error: no    *)
(* Event of that actor is dispatched and the run does not end normally.    *)
(***************************************************************************)
C13_NegativeTripsFatal ==
    Running =>
      \A id \in DOMAIN args.taxis :
        args.taxis[id].num_trips < 0 => (DispatchedOf(id) = {} /\ pc # "done")

(***************************************************************************)
(* C14: a resume of a generator that has already signalled exhaustion      *)
(* answers with something other than that exhaustion signal, and never     *)
(* with an Event.                                                          *)
(***************************************************************************)
C14_ResumeAfterEndDistinct ==
    \A i, j \in 1..Len(sends) :
        (i < j /\ sends[i].proc = sends[j].proc
           /\ sends[i].out.kind = "StopIteration") =>
             /\ sends[j].out.kind # "event"
             /\ sends[j].out # sends[i].out

(***************************************************************************)
(* C15: compute_duration returns at least 1 for each of the four actions,  *)
(* so every time sent to a generator is later than the time of the Event   *)
(* whose dispatch led to it.                                               *)
(***************************************************************************)
C15_PositiveDelay ==
    /\ \A a \in Actions, x \in XValues : compute_duration(a, x) >= 1
    /\ Len(sends) <= Len(dispatched)
    /\ \A k \in 1..Len(sends) :
          /\ sends[k].proc = dispatched[k].proc
          /\ sends[k].time > dispatched[k].time

\* a run with a delay of exactly 1 and a delay of more than 20
C15_Witness ==
    /\ pc = "done"
    /\ \E k \in 1..Len(sends) : sends[k].time = dispatched[k].time + 1
    /\ \E k \in 1..Len(sends) : sends[k].time > dispatched[k].time + 20

(***************************************************************************)
(* C16, as stated: every delay computed after an END SHIFT is 1.           *)
(***************************************************************************)
C16_EndDelayFixed ==
    \A k \in 1..Len(sends) :
        dispatched[k].action = "END SHIFT" =>
            sends[k].time - dispatched[k].time = 1

(***************************************************************************)
(* C16, amended: the delay after an END SHIFT is drawn like the others,    *)
(* with interval 1: it is int(draw) + 1, at least 1, and differs between   *)
(* calls whose draws differ.                                               *)
(***************************************************************************)
C16_EndDelayDrawn ==
    \A k \in 1..Len(sends) :
        dispatched[k].action = "END SHIFT" =>
            /\ sends[k].time - dispatched[k].time = sends[k].draw \div 100 + 1
            /\ sends[k].time - dispatched[k].time >= 1

\* two END SHIFT Events of one run, one followed by a delay of 1 and the other
\* by a delay of 2
C16_Witness ==
    /\ pc = "done"
    /\ \E j, k \in 1..Len(sends) :
          /\ dispatched[j].action = "END SHIFT"
          /\ dispatched[k].action = "END SHIFT"
          /\ sends[j].time - dispatched[j].time = 1
          /\ sends[k].time - dispatched[k].time = 2

(***************************************************************************)
(* C17: in a run built by main, the actors are 0..k-1; actor i has id i,   *)
(* 2(i+1) trips and start time 5i; its START Event has time 5i, and once   *)
(* it has completed 4i + 6 of its Events were dispatched.                  *)
(***************************************************************************)
GeneratorOf(id) == IF id \in DOMAIN procs THEN procs[id] ELSE finished[id]

\* the Events of an actor with a given action, dispatched or still queued
StartsOf(id) ==
    {dispatched[k] : k \in DispatchedAs(id, "START SHIFT")}
      \cup {events[k] : k \in {j \in QueuedOf(id) : events[j].action = "START SHIFT"}}

C17_MainConfiguration ==
    (Running /\ args.caller = "main") =>
        /\ \A i \in DOMAIN args.taxis : i >= 0 /\ \A j \in 0..i : j \in DOMAIN args.taxis
        /\ DOMAIN args.taxis = DOMAIN procs \cup DOMAIN finished
        /\ \A i \in DOMAIN args.taxis :
              /\ GeneratorOf(i).ident = i
              /\ GeneratorOf(i).num_trips = 2 * (i + 1)
              /\ GeneratorOf(i).start_time = 5 * i
              /\ GeneratorOf(i).at # "new" =>
                    StartsOf(i) = {Event(5 * i, i, "START SHIFT")}
              /\ i \in DOMAIN finished => Cardinality(DispatchedOf(i)) = 4 * i + 6

\* main's run of two actors has let both complete
C17_Witness ==
    /\ pc = "done"
    /\ args.caller = "main"
    /\ DOMAIN finished = {0, 1}
    /\ Cardinality(DispatchedOf(0)) = 6
    /\ Cardinality(DispatchedOf(1)) = 10
    /\ \E k \in DispatchedOf(1) : dispatched[k] = Event(5, 1, "START SHIFT")

(***************************************************************************)
(* C18: the actors are started one by one in ascending order of id, each   *)
(* once, its first Event Event(start_time, id, START SHIFT) being put at   *)
(* once; no actor is resumed before all are started.                       *)
(***************************************************************************)
C18_PrimedOnceInOrder ==
    Running =>
        /\ pc = "prime" =>
              /\ dispatched = <<>>
              /\ sends = <<>>
              /\ \A i, j \in 1..Len(events) : i < j => events[i].proc < events[j].proc
              /\ \A a, b \in DOMAIN procs :
                    (procs[a].at # "new" /\ procs[b].at = "new") => a < b
        /\ \A id \in DOMAIN procs :
              IF procs[id].at = "new"
              THEN /\ pc = "prime"
                   /\ Produced(id) = 0
              ELSE StartsOf(id) = {Event(args.taxis[id].start_time, id, "START SHIFT")}
        /\ \A id \in DOMAIN args.taxis :
              /\ Cardinality(DispatchedAs(id, "START SHIFT"))
                   + Cardinality({j \in QueuedOf(id) : events[j].action = "START SHIFT"})
                     <= 1
              /\ id \in DOMAIN procs \cup DOMAIN finished
        /\ sends # <<>> => \A id \in DOMAIN procs : procs[id].at # "new"

\* the first of two actors is started and its Event is queued, the second
\* is not yet started
C18_Witness ==
    /\ pc = "prime"
    /\ DOMAIN procs = {0, 1}
    /\ procs[0].at = "start"
    /\ procs[1].at = "new"
    /\ events = <<Event(-10, 0, "START SHIFT")>>

(***************************************************************************)
(* C19: the actions of the Events produced for an actor of n >= 0 trips,   *)
(* in order, are a prefix of START, n times (pick up, drop off), END, and  *)
(* are all of it once the actor has completed.                             *)
(***************************************************************************)
ExpectedActions(n) ==
    [k \in 1..(2 * n + 2) |->
        IF k = 1 THEN "START SHIFT"
        ELSE IF k = 2 * n + 2 THEN "END SHIFT"
        ELSE IF k % 2 = 0 THEN "pick up passenger"
        ELSE "drop off passenger"]

\* the Events produced for an actor: those dispatched, then the one queued
EventsOf(id) ==
    SelectSeq(dispatched, LAMBDA e : e.proc = id)
      \o SelectSeq(events, LAMBDA e : e.proc = id)

ActionsOf(id) == [k \in 1..Len(EventsOf(id)) |-> EventsOf(id)[k].action]

C19_ActionCycle ==
    Running =>
      \A id \in DOMAIN args.taxis :
        LET n == args.taxis[id].num_trips
        IN n >= 0 =>
             /\ IsPrefix(ActionsOf(id), ExpectedActions(n))
             /\ id \in DOMAIN finished => ActionsOf(id) = ExpectedActions(n)

\* an actor without trips has produced START, END and one with a trip has
\* produced START, pick up, drop off, END
C19_Witness ==
    /\ pc = "done"
    /\ DOMAIN finished = {0, 1}
    /\ ActionsOf(0) = <<"START SHIFT", "END SHIFT">>
    /\ ActionsOf(1) = <<"START SHIFT", "pick up passenger", "drop off passenger",
                        "END SHIFT">>

(***************************************************************************)
(* C20: the time sent to a generator is the time of the Event just         *)
(* dispatched plus the delay computed for its action, and the Event the    *)
(* generator answers with carries exactly that time: so does every Event   *)
(* but the START SHIFT ones, END SHIFT included.                           *)
(***************************************************************************)
\* the place of the Event of the same actor dispatched last before place j
PreviousOf(j) ==
    CHOOSE i \in 1..(j - 1) :
        /\ dispatched[i].proc = dispatched[j].proc
        /\ \A m \in (i + 1)..(j - 1) : dispatched[m].proc # dispatched[j].proc

C20_EventCarriesResumeTime ==
    Running =>
        /\ Len(sends) = Len(dispatched)
        /\ \A k \in 1..Len(sends) :
              /\ sends[k].proc = dispatched[k].proc
              /\ sends[k].time = dispatched[k].time
                                   + compute_duration(dispatched[k].action, sends[k].draw)
              /\ sends[k].out.kind = "event" =>
                    /\ sends[k].out.ev.time = sends[k].time
                    /\ sends[k].out.ev.proc = sends[k].proc
        /\ \A j \in 1..Len(dispatched) :
              dispatched[j].action # "START SHIFT" =>
                  /\ \E i \in 1..(j - 1) : dispatched[i].proc = dispatched[j].proc
                  /\ dispatched[j].time = sends[PreviousOf(j)].time
                  /\ sends[PreviousOf(j)].out.ev = dispatched[j]

\* an actor without trips: its END SHIFT carries the time sent after START
C20_Witness ==
    /\ pc = "done"
    /\ \E j \in 2..Len(dispatched) :
          /\ dispatched[j].action = "END SHIFT"
          /\ dispatched[PreviousOf(j)].action = "START SHIFT"
          /\ dispatched[j].time = dispatched[PreviousOf(j)].time + 6
    /\ \E j \in 2..Len(dispatched) :
          /\ dispatched[j].action = "END SHIFT"
          /\ dispatched[PreviousOf(j)].action = "drop off passenger"

(***************************************************************************)
(* C21: an actor leaves self.procs only in the iteration that dispatches   *)
(* its END SHIFT Event, at the send that raises StopIteration; the         *)
(* termination reports remove nobody; at every loop top an actor is in     *)
(* self.procs exactly when its END SHIFT has not been dispatched.          *)
(***************************************************************************)
C21_RemovedOnlyOnCompletion ==
    [][/\ Running =>
             \A id \in DOMAIN args.taxis :
                 id \in DOMAIN procs <=> DispatchedAs(id, "END SHIFT") = {}
       /\ pc = "loop" =>
             /\ \A id \in DOMAIN procs :
                   id \notin DOMAIN procs' =>
                       /\ Len(dispatched') = Len(dispatched) + 1
                       /\ dispatched'[Len(dispatched')] \in
                             {events[k] : k \in QueuedOf(id)}
                       /\ dispatched'[Len(dispatched')].action = "END SHIFT"
                       /\ Len(sends') = Len(sends) + 1
                       /\ sends'[Len(sends')].proc = id
                       /\ sends'[Len(sends')].out = StopIteration
                       /\ DOMAIN procs' = DOMAIN procs \ {id}
             /\ (/\ Len(dispatched') = Len(dispatched) + 1
                 /\ dispatched'[Len(dispatched')].action = "END SHIFT") =>
                     dispatched'[Len(dispatched')].proc \notin DOMAIN procs'
             /\ reports' # reports => procs' = procs]_vars

\* the END SHIFT of one actor was just dispatched and the actor deleted, while
\* another, whose END SHIFT has not come, is still registered
C21_Witness ==
    /\ pc = "loop"
    /\ Len(dispatched) >= 3
    /\ LastDispatched.action = "END SHIFT"
    /\ LastDispatched.proc \in DOMAIN finished
    /\ \E id \in DOMAIN procs : DispatchedOf(id) # {} /\ procs[id].at # "end"

(***************************************************************************)
(* C22: the horizon is tested at the loop top only: an Event taken there   *)
(* is dispatched and its actor resumed whatever its time, so at most one   *)
(* dispatched Event has a time at or after the horizon, and it is the last *)
(* one dispatched.                                                         *)
(***************************************************************************)
C22_HorizonGatesLoopTop ==
    Running =>
        /\ Len(popClock) = Len(dispatched)
        /\ Len(sends) = Len(dispatched)
        /\ \A k \in 1..Len(dispatched) :
              /\ popClock[k] < args.end_time
              /\ sends[k].proc = dispatched[k].proc
              /\ dispatched[k].time >= args.end_time =>
                    /\ k = Len(dispatched)
                    /\ sim_time >= args.end_time
        /\ Cardinality({k \in 1..Len(dispatched) :
                           dispatched[k].time >= args.end_time}) <= 1

\* the last Event dispatched has a time beyond the horizon; its actor was
\* resumed and the Event it answered with is queued
C22_Witness ==
    /\ pc = "done"
    /\ args.end_time > 0
    /\ Len(dispatched) >= 3
    /\ LastDispatched.time > args.end_time
    /\ sends[Len(sends)].out.kind = "event"
    /\ \E k \in 1..Len(events) : events[k] = sends[Len(sends)].out.ev

(***************************************************************************)
(* C23: an iteration of the loop resumes one actor, once: the owner of the *)
(* Event it dispatches.  The generator and the queued Event of every other *)
(* actor are as before; a step that dispatches nothing, and the start of   *)
(* one actor, change no other actor either.                                *)
(***************************************************************************)
C23_SingleStep ==
    [][/\ pc = "loop" =>
             IF Len(dispatched') = Len(dispatched) + 1
             THEN LET owner == dispatched'[Len(dispatched')].proc
                  IN /\ Len(sends') = Len(sends) + 1
                     /\ sends'[Len(sends')].proc = owner
                     /\ \A id \in (DOMAIN procs \cup DOMAIN finished) \ {owner} :
                           /\ id \in DOMAIN procs =>
                                 id \in DOMAIN procs' /\ procs'[id] = procs[id]
                           /\ id \in DOMAIN finished =>
                                 id \in DOMAIN finished' /\ finished'[id] = finished[id]
                           /\ {events'[k] : k \in {j \in 1..Len(events') :
                                                      events'[j].proc = id}}
                                = {events[k] : k \in QueuedOf(id)}
             ELSE /\ procs' = procs
                  /\ finished' = finished
                  /\ events' = events
                  /\ sends' = sends
       /\ (pc = "prime" /\ toPrime # <<>>) =>
             /\ sends' = sends
             /\ \A id \in DOMAIN procs \ {Head(toPrime)} :
                   /\ procs'[id] = procs[id]
                   /\ {events'[k] : k \in {j \in 1..Len(events') :
                                              events'[j].proc = id}}
                        = {events[k] : k \in QueuedOf(id)}]_vars

\* one actor has been resumed twice while the other, started and queued, has
\* not been resumed at all
C23_Witness ==
    /\ pc = "loop"
    /\ Len(sends) = 2
    /\ \E a, b \in DOMAIN procs :
          /\ procs[a].at = "start"
          /\ procs[b].at = "drop"
          /\ QueuedOf(a) # {}
          /\ QueuedOf(b) # {}

(***************************************************************************)
(* C24: END OF EVENTS is printed exactly at a loop top where the clock is  *)
(* below the horizon and the queue is empty.  The while condition comes    *)
(* first: once the clock has reached the horizon the run prints END OF     *)
(* SIMULATION TIME, with 0 when the queue is empty and every actor done.   *)
(***************************************************************************)
C24_HorizonTestedFirst ==
    [][pc = "loop" =>
         /\ (reports' = <<[kind |-> "END OF EVENTS", remaining |-> 0]>>)
               <=> (events = <<>> /\ sim_time < args.end_time)
         /\ sim_time >= args.end_time =>
               reports' = <<[kind |-> "END OF SIMULATION TIME",
                             remaining |-> Len(events)]>>]_vars

\* every actor has completed, the last Event having been dispatched with a
\* time at or after the horizon: the report is the horizon's, with 0
C24_Witness ==
    /\ pc = "done"
    /\ Len(dispatched) >= 2
    /\ LastDispatched.time >= args.end_time
    /\ procs = <<>>
    /\ events = <<>>
    /\ DOMAIN finished = DOMAIN args.taxis
    /\ reports = <<[kind |-> "END OF SIMULATION TIME", remaining |-> 0]>>

(***************************************************************************)
(* C25: at every loop top, and when the run has ended, the ids with an     *)
(* Event in the queue are the keys of self.procs, each with one Event: the *)
(* size of the queue is the number of registered actors, and the number    *)
(* printed with END OF SIMULATION TIME is the number of actors that have   *)
(* not completed.                                                          *)
(***************************************************************************)
C25_QueueMatchesRegistry ==
    pc \in {"loop", "done"} =>
        /\ {events[k].proc : k \in 1..Len(events)} = DOMAIN procs
        /\ \A id \in DOMAIN procs : Cardinality(QueuedOf(id)) = 1
        /\ Len(events) = Cardinality(DOMAIN procs)
        /\ (pc = "done" /\ reports[1].kind = "END OF SIMULATION TIME") =>
              /\ reports[1].remaining = Cardinality(DOMAIN procs)
              /\ reports[1].remaining =
                    Cardinality({id \in DOMAIN args.taxis :
                                    DispatchedAs(id, "END SHIFT") = {}})

\* of two actors one has completed when the horizon ends the run: 1 is printed
C25_Witness ==
    /\ pc = "done"
    /\ Cardinality(DOMAIN args.taxis) = 2
    /\ Cardinality(DOMAIN finished) = 1
    /\ Cardinality(DOMAIN procs) = 1
    /\ reports = <<[kind |-> "END OF SIMULATION TIME", remaining |-> 1]>>

(***************************************************************************)
(* C26: the dispatched Events of a run are strictly increasing under       *)
(* (time, actor id): those of one actor have strictly increasing times,    *)
(* no two Events dispatched or queued have the same time and actor, so no  *)
(* comparison between queued Events reaches the action.                    *)
(***************************************************************************)
TimeIdLess(a, b) == a.time < b.time \/ (a.time = b.time /\ a.proc < b.proc)

C26_StrictTimeIdOrder ==
    Running =>
        /\ \A i, j \in 1..Len(dispatched) :
              i < j =>
                 /\ TimeIdLess(dispatched[i], dispatched[j])
                 /\ dispatched[i].proc = dispatched[j].proc =>
                       dispatched[i].time < dispatched[j].time
        /\ \A i, j \in 1..Len(events) :
              i # j =>
                 TimeIdLess(events[i], events[j]) \/ TimeIdLess(events[j], events[i])
        /\ \A i \in 1..Len(dispatched), j \in 1..Len(events) :
              TimeIdLess(dispatched[i], events[j])

\* two actors have completed; twice, Events of both were dispatched at one
\* time, the lower id first
C26_Witness ==
    /\ pc = "done"
    /\ DOMAIN finished = {0, 1}
    /\ Len(dispatched) >= 6
    /\ Cardinality({i \in 1..(Len(dispatched) - 1) :
                       /\ dispatched[i].time = dispatched[i + 1].time
                       /\ dispatched[i].proc < dispatched[i + 1].proc}) >= 2

(***************************************************************************)
(* C27: when a run whose start times are not negative ends with END OF     *)
(* SIMULATION TIME, every Event left in the queue has a time at or after   *)
(* the horizon: every Event produced with an earlier time was dispatched.  *)
(***************************************************************************)
C27_NothingDueLeft ==
    (/\ pc = "done"
     /\ reports[1].kind = "END OF SIMULATION TIME"
     /\ \A id \in DOMAIN args.taxis : args.taxis[id].start_time >= 0) =>
        /\ \A k \in 1..Len(events) : events[k].time >= args.end_time
        /\ \A id \in DOMAIN args.taxis :
              \A k \in 1..Len(EventsOf(id)) :
                  EventsOf(id)[k].time < args.end_time =>
                      \E j \in DispatchedOf(id) : dispatched[j] = EventsOf(id)[k]

\* the horizon 40 ends a run of two actors after several dispatches, with
\* both their Events, of times at or after 40, still queued
C27_Witness ==
    /\ pc = "done"
    /\ args.end_time = 40
    /\ reports = <<[kind |-> "END OF SIMULATION TIME", remaining |-> 2]>>
    /\ Len(dispatched) >= 6
    /\ \A id \in DOMAIN args.taxis : args.taxis[id].start_time >= 0
    /\ \A k \in 1..Len(events) : events[k].time >= 40

(***************************************************************************)
(* C28: in a run of taxi_process generators every action handed to         *)
(* compute_duration is one of the four it knows: it returns a delay, never *)
(* raises ValueError, and the run does not end with an exception.          *)
(***************************************************************************)
C28_NoUnknownAction ==
    /\ pc # "error"
    /\ err = None
    /\ \A k \in 1..Len(dispatched) :
          /\ dispatched[k].action \in {"START SHIFT", "pick up passenger",
                                       "drop off passenger", "END SHIFT"}
          /\ \A x \in XValues : Duration(dispatched[k].action, x).kind = "value"
    /\ \A k \in 1..Len(events) :
          /\ events[k].action \in {"START SHIFT", "pick up passenger",
                                   "drop off passenger", "END SHIFT"}
          /\ \A x \in XValues : Duration(events[k].action, x).kind = "value"

\* a run has ended in which each of the four actions was handed to
\* compute_duration
C28_Witness ==
    /\ pc = "done"
    /\ Len(sends) = Len(dispatched)
    /\ {dispatched[k].action : k \in 1..Len(dispatched)} =
          {"START SHIFT", "pick up passenger", "drop off passenger", "END SHIFT"}

(***************************************************************************)
(* C29: sim_time starts at 0.  With a horizon above 0 and an actor, the    *)
(* run dispatches at least the START SHIFT least in (start time, id), even *)
(* if no start time is below the horizon; with a horizon of 0 or less it   *)
(* dispatches nothing, resumes nobody and leaves every START SHIFT queued. *)
(***************************************************************************)
FirstStart ==
    LET id == CHOOSE a \in DOMAIN args.taxis :
                  \A b \in DOMAIN args.taxis :
                      \/ args.taxis[a].start_time < args.taxis[b].start_time
                      \/ /\ args.taxis[a].start_time = args.taxis[b].start_time
                         /\ a <= b
    IN Event(args.taxis[id].start_time, id, "START SHIFT")

C29_ClockStartsAtZero ==
    /\ (pc = "done" /\ args.end_time > 0 /\ DOMAIN args.taxis # {}) =>
          Len(dispatched) >= 1
    /\ (Running /\ Len(dispatched) >= 1) =>
          /\ args.end_time > 0
          /\ dispatched[1] = FirstStart
          /\ popClock[1] = 0
    /\ (pc \in {"loop", "done"} /\ args.end_time <= 0) =>
          /\ dispatched = <<>>
          /\ sends = <<>>
          /\ Len(events) = Cardinality(DOMAIN args.taxis)
          /\ \A id \in DOMAIN args.taxis :
                /\ \E k \in 1..Len(events) :
                      events[k] = Event(args.taxis[id].start_time, id, "START SHIFT")
                /\ id \in DOMAIN procs
                /\ procs[id].at = "start"

\* both actors start at the horizon, 1: the START SHIFT of actor 0 is
\* dispatched all the same, and nothing after it
C29_Witness ==
    /\ pc = "done"
    /\ args.end_time = 1
    /\ DOMAIN args.taxis = {0, 1}
    /\ \A id \in DOMAIN args.taxis : args.taxis[id].start_time = 1
    /\ dispatched = <<Event(1, 0, "START SHIFT")>>
    /\ Len(events) = 2

(***************************************************************************)
(* The horizon of C30.  The delays are at most those of the largest draw,  *)
(* so the END SHIFT of an actor, its last and latest Event, comes no later *)
(* than LatestTime.                                                        *)
(***************************************************************************)
MaxDelay(action) ==
    CHOOSE d \in {compute_duration(action, x) : x \in XValues} :
        \A x \in XValues : compute_duration(action, x) <= d

LatestTime(cfg) ==
    cfg.start_time
      + (IF cfg.num_trips > 0 THEN cfg.num_trips ELSE 0)
          * (MaxDelay("pick up passenger") + MaxDelay("drop off passenger"))
      + MaxDelay("START SHIFT")

\* the horizon is beyond the time of every Event any actor can produce
Sufficient == \A id \in DOMAIN args.taxis : args.end_time > LatestTime(args.taxis[id])

\* the horizon is beyond the time of every Event produced in the run
AllBelowHorizon ==
    /\ \A k \in 1..Len(dispatched) : dispatched[k].time < args.end_time
    /\ \A k \in 1..Len(events) : events[k].time < args.end_time

Complete ==
    /\ pc = "done"
    /\ events = <<>>
    /\ procs = <<>>
    /\ DOMAIN finished = DOMAIN args.taxis
    /\ reports = <<[kind |-> "END OF EVENTS", remaining |-> 0]>>
    /\ \A id \in DOMAIN args.taxis :
          args.taxis[id].num_trips >= 0 =>
              Cardinality(DispatchedOf(id)) = 2 * args.taxis[id].num_trips + 2

====
